---- MODULE Spec2Model ----
(***************************************************************************)
(* A model of lib/ml.py: the RelabeledSubset dataset (construction, item   *)
(* access, its sharing of storage with the base dataset) and the           *)
(* covariance / correlation kernel with the DeCov, DeCorr and HalfCorr     *)
(* criteria.                                                               *)
(*                                                                         *)
(* Tensors are sequences: the element at (0-based) position i of a tensor  *)
(* is element i+1 of the sequence.  Floating-point numbers are exact       *)
(* rationals <<n, d>>, with <<0, 0>> for nan and <<1, 0>>, <<-1, 0>> for   *)
(* the infinities.  The ambient torch generator is a counter: randperm     *)
(* reads it and advances it.                                               *)
(***************************************************************************)
EXTENDS Integers, Sequences, FiniteSets, TLC

VARIABLES
    dataset,      \* the base dataset: [data, targets], two tensors
    rng,          \* the state of the ambient torch generator
    seeded,       \* the seed the generator was last seeded with if nothing drew since, else -1
    self,         \* the RelabeledSubset under construction / constructed
    other,        \* a second RelabeledSubset over the same base dataset
    raised,       \* the exception the last call raised, "none" if it returned
    trace,        \* what the constructor of self did: [draws, selected, seed, base]
    ret,          \* the value the last item access returned
    writes,       \* the number of in-place writes made to tensors so far
    X,            \* the activations handed to the loss functions
    eps,          \* the eps handed to the loss functions
    out           \* the outcome of the last kernel / criterion call

vars == <<dataset, rng, seeded, self, other, raised, trace, ret, writes, X, eps, out>>

-----------------------------------------------------------------------------
(* Bounds of the model.                                                    *)

MaxItems == 3

NumClasses == 2

MaxClassSize == 2

MaxK == 2

MaxWrites == 1

Classes == 0 .. (NumClasses - 1)

-----------------------------------------------------------------------------
(* Helpers on sequences.                                                   *)

RECURSIVE Fact(_)
Fact(n) == IF n <= 1 THEN 1 ELSE n * Fact(n - 1)

RECURSIVE Concat(_)
Concat(ss) == IF ss = <<>> THEN <<>> ELSE Head(ss) \o Concat(Tail(ss))

RECURSIVE SetToSeq(_)
SetToSeq(S) ==
    IF S = {} THEN <<>>
    ELSE LET m == CHOOSE x \in S : \A y \in S : x <= y
         IN  <<m>> \o SetToSeq(S \ {m})

Count(s, v) == Cardinality({i \in 1 .. Len(s) : s[i] = v})

Remove(s, k) == [i \in 1 .. (Len(s) - 1) |-> IF i < k THEN s[i] ELSE s[i + 1]]

-----------------------------------------------------------------------------
(* torch primitives used by RelabeledSubset.                               *)

\* torch.arange(n)
Arange(n) == [i \in 1 .. n |-> i - 1]

\* t[inds] / torch.index_select(t, 0, inds): inds are 0-based positions
IndexSelect(t, inds) == [i \in 1 .. Len(inds) |-> t[inds[i] + 1]]

\* the r-th permutation of the elements of avail, in lexicographic order
RECURSIVE PermFrom(_, _)
PermFrom(avail, r) ==
    IF avail = <<>> THEN <<>>
    ELSE LET f == Fact(Len(avail) - 1)
             d == r \div f
         IN  <<avail[d + 1]>> \o PermFrom(Remove(avail, d + 1), r % f)

\* the generator has as many states as there are permutations of MaxItems
RngMod == Fact(MaxItems)

\* torch.randperm(n) drawn with the generator in state g
Randperm(n, g) == PermFrom(Arange(n), g % Fact(n))

\* the generator's state after one draw
Advance(g) == (g + 1) % RngMod

-----------------------------------------------------------------------------
(* Constructor arguments.  class_size is 'all' or an integer, class_inds   *)
(* is 'all' or a set of class ids, target2_config is a string or an        *)
(* integer; each is a record that names which.                             *)

AllSize == [kind |-> "all", n |-> 0]
IntSize(k) == [kind |-> "int", n |-> k]

AllInds == [kind |-> "all", ids |-> {}]
SetInds(S) == [kind |-> "set", ids |-> S]

StrConfig(s) == [kind |-> s, n |-> 0]
IntConfig(k) == [kind |-> "int", n |-> k]

ClassSizes == {AllSize} \cup {IntSize(k) : k \in 1 .. MaxClassSize}
ClassInds == {AllInds} \cup {SetInds(S) : S \in (SUBSET Classes) \ {{}}}
Target2Configs ==
    {StrConfig(s) : s \in {"index", "shuffle", "none", "bogus"}}
        \cup {IntConfig(k) : k \in 1 .. MaxK}
Transforms == {"None", "fn"}

-----------------------------------------------------------------------------
(* RelabeledSubset.__init__                                                *)

\* torch.where(dataset.targets == class_idx)[0]: ascending 0-based positions
IndsOfClass(targets, class_idx) ==
    SetToSeq({i - 1 : i \in {j \in 1 .. Len(targets) : targets[j] = class_idx}})

\* a faulty TakeFirst: inds[:class_size + 1]
TakeFirstOffByOne(inds, class_size) ==
    IF class_size.kind = "all" THEN inds
    ELSE SubSeq(inds, 1, IF class_size.n + 1 < Len(inds) THEN class_size.n + 1 ELSE Len(inds))
\* inds[:class_size]
TakeFirst(inds, class_size) ==
    IF class_size.kind = "all" THEN inds
    ELSE SubSeq(inds, 1, IF class_size.n < Len(inds) THEN class_size.n ELSE Len(inds))

\* class_inds, or every class of the dataset, as the list that is iterated
ResolveClassInds(class_inds) ==
    IF class_inds.kind = "all" THEN SetToSeq(Classes) ELSE SetToSeq(class_inds.ids)

\* torch.cat(inds_by_class)
SubsetInds(targets, class_size, class_inds) ==
    LET cls == ResolveClassInds(class_inds)
    IN  Concat([k \in 1 .. Len(cls) |-> TakeFirst(IndsOfClass(targets, cls[k]), class_size)])

\* a faulty PermuteInds: the permutation comes from a generator of the class's
\* own, which counts the subsets built and which manual_seed does not reseed
PermuteIndsUnseeded(subset_inds, g) ==
    IndexSelect(subset_inds,
                Randperm(Len(subset_inds), IF self.state = "unbuilt" THEN 0 ELSE 1))

\* subset_inds[torch.randperm(len(subset_inds))]
PermuteInds(subset_inds, g) ==
    IndexSelect(subset_inds, Randperm(Len(subset_inds), g))

\* The first if/else: where self.data and self.targets come from.  "dataset"
\* says that the attribute is the base dataset's own tensor (torch.as_tensor
\* of a tensor returns that tensor), "own" that it is a new tensor.
\* a faulty Selected: the labels are taken at the first len(subset_inds)
\* positions of the base, not at subset_inds
SelectedLabelsUnpermuted(ds, inds, g) ==
    [data_ref |-> "own", targets_ref |-> "own",
     data |-> IndexSelect(ds.data, inds),
     targets |-> IndexSelect(ds.targets, Arange(Len(inds))),
     inds |-> inds, selected |-> TRUE,
     rng |-> Advance(g), draws |-> 1]

\* The else branch of the first if/else once subset_inds is permuted (inds):
\* self.data and self.targets are new tensors, the rows of the base at inds.
Selected(ds, inds, g) ==
    [data_ref |-> "own", targets_ref |-> "own",
     data |-> IndexSelect(ds.data, inds),
     targets |-> IndexSelect(ds.targets, inds),
     inds |-> inds, selected |-> TRUE,
     rng |-> Advance(g), draws |-> 1]

Select(ds, class_size, class_inds, g) ==
    IF class_inds.kind = "all" /\ class_size.kind = "all"
    THEN [data_ref |-> "dataset", targets_ref |-> "dataset",
          data |-> <<>>, targets |-> <<>>,
          inds |-> Arange(Len(ds.targets)), selected |-> FALSE,
          rng |-> g, draws |-> 0]
    ELSE Selected(ds, PermuteInds(SubsetInds(ds.targets, class_size, class_inds), g), g)

\* a faulty IndexLabels: torch.arange(1, len(self.targets) + 1)
IndexLabelsOneBased(targets) == [i \in 1 .. Len(targets) |-> i]

\* torch.arange(len(self.targets))
IndexLabels(targets) == Arange(Len(targets))

\* a faulty ShuffleLabels: positions drawn with replacement (torch.randint),
\* here the same position every time
ShuffleWithReplacement(targets, g) ==
    IndexSelect(targets, [i \in 1 .. Len(targets) |-> g % Len(targets)])

\* self.targets[perm].clone()
ShuffleLabels(targets, g) == IndexSelect(targets, Randperm(Len(targets), g))

\* a faulty BucketLabels: (torch.arange(len(self.targets)) % (target2_config + 1))[perm]
BucketLabelsWrongModulus(targets, K, g) ==
    IndexSelect([i \in 1 .. Len(targets) |-> (i - 1) % (K + 1)], Randperm(Len(targets), g))

\* (torch.arange(len(self.targets)) % target2_config)[perm]
BucketLabels(targets, K, g) ==
    IndexSelect([i \in 1 .. Len(targets) |-> (i - 1) % K], Randperm(Len(targets), g))

\* The second if/elif chain: self.targets2, or the exception.
Relabel(target2_config, targets, g) ==
    CASE target2_config.kind = "index" ->
            [kind |-> "tensor", val |-> IndexLabels(targets),
             rng |-> g, draws |-> 0, raised |-> "none"]
      [] target2_config.kind = "shuffle" ->
            [kind |-> "tensor", val |-> ShuffleLabels(targets, g),
             rng |-> Advance(g), draws |-> 1, raised |-> "none"]
      [] target2_config.kind = "int" ->
            [kind |-> "tensor", val |-> BucketLabels(targets, target2_config.n, g),
             rng |-> Advance(g), draws |-> 1, raised |-> "none"]
      [] target2_config.kind = "none" ->
            [kind |-> "None", val |-> <<>>,
             rng |-> g, draws |-> 0, raised |-> "none"]
      [] OTHER ->
            [kind |-> "unset", val |-> <<>>,
             rng |-> g, draws |-> 0, raised |-> "Exception"]

\* An object no constructor has run on.
NoObject ==
    [state |-> "unbuilt", class_inds |-> AllInds, class_size |-> AllSize,
     data_ref |-> "unset", targets_ref |-> "unset", data |-> <<>>, targets |-> <<>>,
     targets2_kind |-> "unset", targets2 |-> <<>>,
     transform |-> "unset", target_transform |-> "unset"]

\* The end of the constructor: the object as the first if/else (sel) and the
\* second if/elif chain (rel) leave it, "built" when the constructor returned
\* and "partial" when it raised; the generator's state; what was done on the way.
Assemble(sel, rel, class_size, class_inds, transform, target_transform) ==
    [obj |-> [state |-> IF rel.raised = "none" THEN "built" ELSE "partial",
              class_inds |-> class_inds, class_size |-> class_size,
              data_ref |-> sel.data_ref, targets_ref |-> sel.targets_ref,
              data |-> sel.data, targets |-> sel.targets,
              targets2_kind |-> rel.kind, targets2 |-> rel.val,
              transform |-> IF rel.raised = "none" THEN transform ELSE "unset",
              target_transform |->
                  IF rel.raised = "none" THEN target_transform ELSE "unset"],
     rng |-> rel.rng,
     raised |-> rel.raised,
     draws |-> sel.draws + rel.draws,
     selected |-> sel.selected,
     assigned |-> sel.data_ref # "unset",
     inds |-> sel.inds]

\* The constructor after its first if/else left sel: self.targets is read for
\* the second labels.
AfterSelect(ds, sel, class_size, class_inds, target2_config, transform, target_transform) ==
    Assemble(sel,
             Relabel(target2_config,
                     IF sel.targets_ref = "dataset" THEN ds.targets ELSE sel.targets,
                     sel.rng),
             class_size, class_inds, transform, target_transform)

\* The whole constructor, run on base dataset ds with the generator in state g.
Init__(ds, class_size, class_inds, target2_config, transform, target_transform, g) ==
    AfterSelect(ds, Select(ds, class_size, class_inds, g),
                class_size, class_inds, target2_config, transform, target_transform)

-----------------------------------------------------------------------------
(* Reading a RelabeledSubset.                                              *)

\* self.data and self.targets, through the reference when they are the base's
DataOf(obj) == IF obj.data_ref = "dataset" THEN dataset.data ELSE obj.data
TargetsOf(obj) == IF obj.targets_ref = "dataset" THEN dataset.targets ELSE obj.targets

\* __len__
Length(obj) == Len(TargetsOf(obj))

\* the externally supplied transforms: None, or a fixed pure function
ApplyTransform(transform, img) == IF transform = "None" THEN img ELSE img + 100
ApplyTargetTransform(target_transform, t) ==
    IF target_transform = "None" THEN t ELSE t + 10

\* __getitem__(idx), 0 <= idx < len
GetItem(obj, idx) ==
    LET img == ApplyTransform(obj.transform, DataOf(obj)[idx + 1])
        target == ApplyTargetTransform(obj.target_transform, TargetsOf(obj)[idx + 1])
    IN  IF obj.targets2_kind = "None"
        THEN <<img, target>>
        ELSE <<img, target,
               ApplyTargetTransform(obj.target_transform, obj.targets2[idx + 1])>>

\* the item sequence: every item in order
Items(obj) == [i \in 1 .. Length(obj) |-> GetItem(obj, i - 1)]

-----------------------------------------------------------------------------
(* Exact arithmetic for the floating-point values: <<n, d>> is n/d in      *)
(* lowest terms with d > 0; <<0, 0>> is nan, <<1, 0>> and <<-1, 0>> are    *)
(* the infinities.                                                         *)

RECURSIVE GCD(_, _)
GCD(a, b) == IF b = 0 THEN a ELSE GCD(b, a % b)

Abs(n) == IF n < 0 THEN -n ELSE n
Sgn(n) == IF n < 0 THEN -1 ELSE IF n > 0 THEN 1 ELSE 0

Reduced(n, d, g) == IF d < 0 THEN <<(-n) \div g, (-d) \div g>> ELSE <<n \div g, d \div g>>
Norm(n, d) == IF d = 0 THEN <<Sgn(n), 0>> ELSE Reduced(n, d, GCD(Abs(n), Abs(d)))

NaN == <<0, 0>>
Zero == <<0, 1>>
Num(k) == <<k, 1>>

RAdd(a, b) ==
    IF a = NaN \/ b = NaN THEN NaN
    ELSE IF a[2] = 0 /\ b[2] = 0 THEN (IF a = b THEN a ELSE NaN)
    ELSE IF a[2] = 0 THEN a
    ELSE IF b[2] = 0 THEN b
    ELSE Norm(a[1] * b[2] + b[1] * a[2], a[2] * b[2])

RNeg(a) == <<-a[1], a[2]>>
RSub(a, b) == RAdd(a, RNeg(b))

RMul(a, b) ==
    IF a = NaN \/ b = NaN THEN NaN
    ELSE IF a[2] = 0 \/ b[2] = 0 THEN <<Sgn(a[1]) * Sgn(b[1]), 0>>
    ELSE Norm(a[1] * b[1], a[2] * b[2])

\* tensor division: x/0 is an infinity or nan, never an exception
RInv(a) == Norm(a[2], a[1])
RDiv(a, b) == RMul(a, RInv(b))

RECURSIVE RSum(_)
RSum(s) == IF s = <<>> THEN Zero ELSE RAdd(Head(s), RSum(Tail(s)))

-----------------------------------------------------------------------------
(* Tensors of the loss functions: [shape, v], shape of length one or two,  *)
(* v the sequence of rows (a tensor of one axis keeps its numbers in one   *)
(* row).  A call's outcome is a value or an exception.                     *)

Return(v) == [kind |-> "return", exc |-> "none", val |-> v]
Raise(e) == [kind |-> "raise", exc |-> e, val |-> <<>>]

\* the Exception cov_matrix and corr_matrix_sq raise for X.ndim < 2
ShapeError == "Exception: input must have at least 2 dimensions"

Ndim(T) == Len(T.shape)
\* X.shape[-1]
LastAxis(T) == T.shape[Len(T.shape)]

Matrix(rows, cols, v) == [shape |-> <<rows, cols>>, v |-> v]

\* the tuple <<f(1), ..., f(n)>>, and the rows of the matrix of e(i, j)
RECURSIVE Listed(_, _)
Listed(fn, n) == IF n = 0 THEN <<>> ELSE Append(Listed(fn, n - 1), fn[n])
Tab(n, f(_)) == Listed([i \in 1 .. n |-> f(i)], n)
Table(rows, cols, e(_, _)) == Tab(rows, LAMBDA i : Tab(cols, LAMBDA j : e(i, j)))

\* X.T / X.transpose(-1, -2); a tensor of one axis is its own .T
Transpose(T) ==
    IF Ndim(T) < 2 THEN T
    ELSE Matrix(T.shape[2], T.shape[1],
                Table(T.shape[2], T.shape[1], LAMBDA j, i : T.v[i][j]))

\* X[:, k:]
ColsFrom(T, k) ==
    Matrix(T.shape[1], T.shape[2] - k,
           Table(T.shape[1], T.shape[2] - k, LAMBDA i, j : T.v[i][j + k]))

\* X[k:, :]
RowsFrom(T, k) ==
    Matrix(T.shape[1] - k, T.shape[2], Tab(T.shape[1] - k, LAMBDA i : T.v[i + k]))

\* int(round(n / 2)): Python rounds a half to the even neighbour
RoundHalf(n) ==
    IF n % 2 = 0 THEN n \div 2
    ELSE IF ((n - 1) \div 2) % 2 = 0 THEN (n - 1) \div 2 ELSE (n + 1) \div 2

\* torch.mean(X, dim=-1, keepdim=True) of one row
RowMean(row) == RDiv(RSum(row), Num(Len(row)))

\* row - m
RowMinus(row, m) == Tab(Len(row), LAMBDA k : RSub(row[k], m))

\* X - mean
Centered(T) ==
    Matrix(T.shape[1], T.shape[2],
           Tab(T.shape[1], LAMBDA i : RowMinus(T.v[i], RowMean(T.v[i]))))

\* one entry of A @ B.transpose(-1, -2)
Dot(r1, r2) == RSum(Tab(Len(r1), LAMBDA k : RMul(r1[k], r2[k])))

\* A @ B.transpose(-1, -2)
MatMulT(A, B) ==
    Matrix(A.shape[1], B.shape[1],
           Table(A.shape[1], B.shape[1], LAMBDA i, j : Dot(A.v[i], B.v[j])))

\* c * A, A.square(), A / B entrywise
Scaled(c, T) ==
    [T EXCEPT !.v = Table(T.shape[1], T.shape[2], LAMBDA i, j : RMul(c, T.v[i][j]))]
Squared(T) ==
    [T EXCEPT !.v = Table(T.shape[1], T.shape[2], LAMBDA i, j : RMul(T.v[i][j], T.v[i][j]))]
Divided(T, D) ==
    [T EXCEPT !.v = Table(T.shape[1], T.shape[2], LAMBDA i, j : RDiv(T.v[i][j], D.v[i][j]))]

\* sum of squares of a row
SumSquares(row) == RSum(Tab(Len(row), LAMBDA k : RMul(row[k], row[k])))

\* torch.var(X, dim=-1) of one row: unbiased, the divisor is max(0, N - 1)
RowVar(row) ==
    RDiv(SumSquares(RowMinus(row, RowMean(row))),
         Num(IF Len(row) > 1 THEN Len(row) - 1 ELSE 0))

\* torch.var(X, dim=-1) + eps
VarPlusEps(T, eps_) == Tab(T.shape[1], LAMBDA i : RAdd(RowVar(T.v[i]), eps_))

\* torch.outer(var, var)
Outer(var) ==
    Matrix(Len(var), Len(var), Table(Len(var), Len(var), LAMBDA i, j : RMul(var[i], var[j])))

\* A.diagonal().zero_()
ZeroDiagonal(T) ==
    [T EXCEPT !.v = Table(T.shape[1], T.shape[2],
                          LAMBDA i, j : IF i = j THEN Zero ELSE T.v[i][j])]

\* A.sum()
SumAll(T) == RSum(Tab(T.shape[1], LAMBDA i : RSum(T.v[i])))

-----------------------------------------------------------------------------
(* cov_matrix, corr_matrix_sq and the three criteria.                      *)

\* 1./(N-1) * X @ X.transpose(-1, -2) on the centred X: the Python division
\* 1./(N-1) raises ZeroDivisionError for N = 1
CovOfCentered(Xc, N) ==
    IF N - 1 = 0 THEN Raise("ZeroDivisionError")
    ELSE Return(MatMulT(Scaled(Norm(1, N - 1), Xc), Xc))

cov_matrix(T) ==
    IF Ndim(T) < 2 THEN Raise(ShapeError)
    ELSE CovOfCentered(Centered(T), LastAxis(T))

\* the body of corr_matrix_sq on the centred X: var, corr_sq, and the Python
\* division 1./(N-1.)**2, which raises ZeroDivisionError for N = 1
CorrSqOfCentered(Xc, eps_, N) ==
    IF (N - 1) * (N - 1) = 0 THEN Raise("ZeroDivisionError")
    ELSE Return(Scaled(Norm(1, (N - 1) * (N - 1)),
                       Divided(Squared(MatMulT(Xc, Xc)), Outer(VarPlusEps(Xc, eps_)))))

corr_matrix_sq(T, eps_) ==
    IF Ndim(T) < 2 THEN Raise(ShapeError)
    ELSE CorrSqOfCentered(Centered(T), eps_, LastAxis(T))

\* the end of a criterion: an exception of the kernel propagates
SumOffDiagonal(res) ==
    IF res.kind = "raise" THEN res ELSE Return(SumAll(ZeroDiagonal(res.val)))
SumSquaresOffDiagonal(res) ==
    IF res.kind = "raise" THEN res ELSE Return(SumAll(Squared(ZeroDiagonal(res.val))))

decov_criterion(activations) == SumSquaresOffDiagonal(cov_matrix(Transpose(activations)))

decorr_criterion(activations, eps_) == SumOffDiagonal(corr_matrix_sq(activations, eps_))

\* a faulty halfcorr_criterion: activations[half:, :], half taken from shape[0]
HalfcorrOverRows(activations, eps_) ==
    IF Ndim(activations) < 2 THEN Raise("IndexError")
    ELSE SumOffDiagonal(corr_matrix_sq(
             RowsFrom(activations, RoundHalf(activations.shape[1])), eps_))

\* half = int(round(activations.shape[-1]/2)); activations[:, half:] raises
\* IndexError on a tensor of one axis
halfcorr_criterion(activations, eps_) ==
    IF Ndim(activations) < 2 THEN Raise("IndexError")
    ELSE SumOffDiagonal(corr_matrix_sq(
             ColsFrom(activations, RoundHalf(LastAxis(activations))), eps_))

-----------------------------------------------------------------------------
(* The sampler's operations.                                               *)

NoTrace ==
    [draws |-> 0, selected |-> FALSE, assigned |-> FALSE, seed |-> -1,
     class_size |-> AllSize, class_inds |-> AllInds, target2_config |-> StrConfig("none"),
     transform |-> "unset", target_transform |-> "unset",
     base |-> [data |-> <<>>, targets |-> <<>>], inds |-> <<>>, items |-> <<>>]

\* what a run r of the constructor did, as a record kept beside the object
TraceOf(r, class_size, class_inds, target2_config, transform, target_transform) ==
    [draws |-> r.draws, selected |-> r.selected, assigned |-> r.assigned,
     seed |-> seeded,
     class_size |-> class_size, class_inds |-> class_inds,
     target2_config |-> target2_config,
     transform |-> transform, target_transform |-> target_transform,
     base |-> dataset, inds |-> r.inds,
     items |-> IF r.raised = "none" THEN Items(r.obj) ELSE <<>>]

\* torch.manual_seed(s) on the ambient generator
ManualSeed(s) ==
    /\ rng' = s
    /\ seeded' = s
    /\ UNCHANGED <<dataset, self, other, raised, trace, ret, writes, X, eps, out>>

\* self = RelabeledSubset(dataset, class_size, class_inds, target2_config, ...)
Construct(class_size, class_inds, target2_config, transform, target_transform) ==
    /\ self.state = "unbuilt"
    /\ \E r \in {Init__(dataset, class_size, class_inds, target2_config,
                         transform, target_transform, rng)} :
           /\ self' = r.obj
           /\ rng' = r.rng
           /\ raised' = r.raised
           /\ seeded' = IF r.draws > 0 THEN -1 ELSE seeded
           /\ trace' = [trace EXCEPT !.self =
                           TraceOf(r, class_size, class_inds, target2_config,
                                   transform, target_transform)]
    /\ UNCHANGED <<dataset, other, ret, writes, X, eps, out>>

\* other = RelabeledSubset(dataset, ...), a second subset of the same base
ConstructOther(class_size, class_inds, target2_config, transform, target_transform) ==
    /\ self.state # "unbuilt"
    /\ other.state = "unbuilt"
    /\ \E r \in {Init__(dataset, class_size, class_inds, target2_config,
                         transform, target_transform, rng)} :
           /\ other' = r.obj
           /\ rng' = r.rng
           /\ raised' = r.raised
           /\ seeded' = IF r.draws > 0 THEN -1 ELSE seeded
           /\ trace' = [trace EXCEPT !.other =
                           TraceOf(r, class_size, class_inds, target2_config,
                                   transform, target_transform)]
    /\ UNCHANGED <<dataset, self, ret, writes, X, eps, out>>

\* self[idx]
Access(idx) ==
    /\ self.state = "built"
    /\ idx \in 0 .. (Length(self) - 1)
    /\ ret' = GetItem(self, idx)
    /\ raised' = "none"
    /\ UNCHANGED <<dataset, rng, seeded, self, other, trace, writes, X, eps, out>>

\* images and labels an in-place write may store
Images == {10 + i : i \in 1 .. MaxItems} \cup {0}

\* dataset.data[i] = v or dataset.targets[i] = v, written in place by the
\* dataset's owner after the subset was constructed
WriteDataset(field, i, v) ==
    /\ self.state = "built"
    /\ writes.base + writes.subset < MaxWrites
    /\ i \in 0 .. (Len(dataset[field]) - 1)
    /\ v \in (IF field = "data" THEN Images ELSE Classes)
    /\ dataset[field][i + 1] # v
    /\ dataset' = [dataset EXCEPT ![field][i + 1] = v]
    /\ writes' = [writes EXCEPT !.base = @ + 1]
    /\ UNCHANGED <<rng, seeded, self, other, raised, trace, ret, X, eps, out>>

\* self.data[i] = v or self.targets[i] = v, written in place: the write lands in
\* the tensor the attribute refers to
WriteSelf(field, i, v) ==
    /\ self.state = "built"
    /\ writes.base + writes.subset < MaxWrites
    /\ v \in (IF field = "data" THEN Images ELSE Classes)
    /\ LET ref == IF field = "data" THEN self.data_ref ELSE self.targets_ref
       IN  IF ref = "dataset"
           THEN /\ i \in 0 .. (Len(dataset[field]) - 1)
                /\ dataset[field][i + 1] # v
                /\ dataset' = [dataset EXCEPT ![field][i + 1] = v]
                /\ UNCHANGED self
           ELSE /\ i \in 0 .. (Len(self[field]) - 1)
                /\ self[field][i + 1] # v
                /\ self' = [self EXCEPT ![field][i + 1] = v]
                /\ UNCHANGED dataset
    /\ writes' = [writes EXCEPT !.subset = @ + 1]
    /\ UNCHANGED <<rng, seeded, other, raised, trace, ret, X, eps, out>>

-----------------------------------------------------------------------------
(* Specifications of the sampler.                                          *)

NoTensor == [shape |-> <<>>, v |-> <<>>]

InitSampler ==
    /\ dataset \in {[data |-> [i \in 1 .. MaxItems |-> 10 + i], targets |-> t] :
                        t \in [1 .. MaxItems -> Classes]}
    /\ rng \in 0 .. (RngMod - 1)
    /\ seeded = rng
    /\ self = NoObject
    /\ other = NoObject
    /\ raised = "none"
    /\ trace = [self |-> NoTrace, other |-> NoTrace]
    /\ ret = <<>>
    /\ writes = [base |-> 0, subset |-> 0]
    /\ X = NoTensor
    /\ eps = Zero
    /\ out = [fn |-> "none", res |-> Return(<<>>)]

\* the generator is seeded and one subset is constructed, with every
\* configuration of class_size, class_inds and target2_config
NextSampler ==
    \/ \E s \in 0 .. (RngMod - 1) : self.state = "unbuilt" /\ ManualSeed(s)
    \/ \E cs \in ClassSizes, ci \in ClassInds, t2 \in Target2Configs :
          Construct(cs, ci, t2, "None", "None")

Spec == InitSampler /\ [][NextSampler]_vars

\* the generator is seeded and one subset is constructed with
\* target2_config = 'index', with and without a target_transform
NextIndex ==
    \/ \E s \in 0 .. (RngMod - 1) : self.state = "unbuilt" /\ ManualSeed(s)
    \/ \E cs \in ClassSizes, ci \in ClassInds, tt \in Transforms :
          Construct(cs, ci, StrConfig("index"), "None", tt)

SpecIndex == InitSampler /\ [][NextIndex]_vars

\* one subset is constructed, read, and tensors are written in place
NextAccess ==
    \/ \E cs \in ClassSizes, ci \in ClassInds, t2 \in {StrConfig("none"), StrConfig("index")},
          tr \in Transforms : Construct(cs, ci, t2, tr, "None")
    \/ \E idx \in 0 .. (MaxItems - 1) : Access(idx)
    \/ \E f \in {"data", "targets"}, i \in 0 .. (MaxItems - 1), v \in Images \cup Classes :
          WriteDataset(f, i, v)
    \/ \E f \in {"data", "targets"}, i \in 0 .. (MaxItems - 1), v \in Images \cup Classes :
          WriteSelf(f, i, v)

SpecAccess == InitSampler /\ [][NextAccess]_vars

\* two subsets of the same base are constructed one after the other with the
\* same configuration, the generator being seeded at any time
NextTwice ==
    \/ \E s \in 0 .. (RngMod - 1) : other.state = "unbuilt" /\ ManualSeed(s)
    \/ \E cs \in ClassSizes, ci \in ClassInds, t2 \in Target2Configs :
          Construct(cs, ci, t2, "None", "None")
    \/ ConstructOther(trace.self.class_size, trace.self.class_inds,
                      trace.self.target2_config, trace.self.transform,
                      trace.self.target_transform)

SpecTwice == InitSampler /\ [][NextTwice]_vars

-----------------------------------------------------------------------------
(* Claims about the sampler.                                               *)

Min(a, b) == IF a < b THEN a ELSE b

\* the subset self was constructed (the constructor returned) with a cap
\* class_size = k and an explicit set of classes
CappedSubset ==
    /\ self.state = "built"
    /\ trace.self.class_size.kind = "int"
    /\ trace.self.class_inds.kind = "set"

\* C1: with class_size = k and class_inds a set of classes, the subset holds
\* exactly min(k, number of base items of class c) items of every selected class
\* c and no item of an unselected class.
C1_ClassCap ==
    CappedSubset =>
        \A c \in Classes :
            Count(TargetsOf(self), c) =
                IF c \in trace.self.class_inds.ids
                THEN Min(trace.self.class_size.n, Count(trace.self.base.targets, c))
                ELSE 0

\* a capped subset where one selected class has more items than the cap, and
\* an unselected class has items
C1_Witness ==
    /\ CappedSubset
    /\ \E c \in trace.self.class_inds.ids :
          /\ Count(trace.self.base.targets, c) > trace.self.class_size.n
          /\ Count(TargetsOf(self), c) = trace.self.class_size.n
    /\ \E c \in Classes \ trace.self.class_inds.ids :
          Count(trace.self.base.targets, c) > 0

\* C2: when the constructor raises for an unknown target2_config, nothing has
\* been done yet: no index selection, no permutation drawn, no data or targets
\* assigned.
C2_RaisesBeforeWork ==
    raised = "Exception" =>
        /\ trace.self.draws = 0
        /\ ~trace.self.selected
        /\ ~trace.self.assigned
        /\ self.data_ref = "unset"
        /\ self.targets_ref = "unset"

\* C7: with target2_config = K, every second label is in 0 .. K-1 and each value
\* appears floor(M/K) or ceil(M/K) times.
C7_Buckets ==
    (self.state = "built" /\ trace.self.target2_config.kind = "int") =>
        LET K == trace.self.target2_config.n
            M == Length(self)
        IN  /\ Len(self.targets2) = M
            /\ \A i \in 1 .. M : self.targets2[i] \in 0 .. (K - 1)
            /\ \A v \in 0 .. (K - 1) :
                  Count(self.targets2, v) \in {M \div K, (M + K - 1) \div K}

\* K = 2 buckets over a subset of odd length: one bucket has one item more
C7_Witness ==
    /\ self.state = "built"
    /\ trace.self.target2_config = IntConfig(2)
    /\ Length(self) = 3
    /\ trace.self.selected
    /\ Count(self.targets2, 0) = 2
    /\ Count(self.targets2, 1) = 1
    /\ self.targets2 # <<0, 1, 0>>

\* C8: with target2_config = 'shuffle', the second labels are a permutation of
\* the subset's own first labels.
C8_Shuffle ==
    (self.state = "built" /\ trace.self.target2_config.kind = "shuffle") =>
        /\ Len(self.targets2) = Length(self)
        /\ \A c \in Classes : Count(self.targets2, c) = Count(TargetsOf(self), c)

\* a shuffled subset whose second labels differ from its first labels
C8_Witness ==
    /\ self.state = "built"
    /\ trace.self.target2_config.kind = "shuffle"
    /\ trace.self.selected
    /\ Length(self) >= 2
    /\ self.targets2 # TargetsOf(self)

\* the base positions the selection step must keep: those of a selected class
\* that are among the first class_size of their class in base order
ExpectedInds(t) ==
    {i \in 0 .. (Len(t.base.targets) - 1) :
        /\ \/ t.class_inds.kind = "all"
           \/ t.base.targets[i + 1] \in t.class_inds.ids
        /\ \/ t.class_size.kind = "all"
           \/ Cardinality({j \in 0 .. (i - 1) :
                              t.base.targets[j + 1] = t.base.targets[i + 1]})
                  < t.class_size.n}

\* the base position the image at (0-based) position p of self comes from; the
\* images of the base dataset are distinct
SourceOf(p) ==
    CHOOSE i \in 0 .. (Len(trace.self.base.data) - 1) :
        trace.self.base.data[i + 1] = DataOf(self)[p + 1]

\* C10: when class_size or class_inds is not 'all', the (image, label) pairs of
\* the subset are those of the base at exactly the expected positions, each
\* once, image and label coming from the same base position.
C10_Selection ==
    (self.state = "built" /\ trace.self.selected) =>
        LET M == Length(self)
        IN  /\ Len(DataOf(self)) = M
            /\ \A p \in 0 .. (M - 1) :
                  /\ DataOf(self)[p + 1] \in
                        {trace.self.base.data[i] : i \in 1 .. Len(trace.self.base.data)}
                  /\ TargetsOf(self)[p + 1] = trace.self.base.targets[SourceOf(p) + 1]
            /\ {SourceOf(p) : p \in 0 .. (M - 1)} = ExpectedInds(trace.self)
            /\ M = Cardinality(ExpectedInds(trace.self))

\* a capped selection over interleaved classes that drops a base item of a
\* selected class and is not in base order
C10_Witness ==
    /\ self.state = "built"
    /\ trace.self.selected
    /\ trace.self.class_size.kind = "int"
    /\ trace.self.base.targets = <<0, 1, 0>>
    /\ DataOf(self) = <<12, 11>>
    /\ TargetsOf(self) = <<1, 0>>

\* C6: with target2_config = 'index', the second label stored for position i is
\* i, so the second labels are 0 .. M-1, each once; item access returns it as
\* its third component, through target_transform when there is one.
C6_IndexLabels ==
    (self.state = "built" /\ trace.self.target2_config.kind = "index") =>
        LET M == Length(self)
        IN  /\ Len(self.targets2) = M
            /\ \A i \in 0 .. (M - 1) :
                  /\ self.targets2[i + 1] = i
                  /\ Len(GetItem(self, i)) = 3
                  /\ GetItem(self, i)[3] = ApplyTargetTransform(self.target_transform, i)
            /\ {self.targets2[i] : i \in 1 .. M} = 0 .. (M - 1)

\* an index-labelled subset whose selection was permuted
C6_Witness ==
    /\ self.state = "built"
    /\ trace.self.target2_config.kind = "index"
    /\ trace.self.selected
    /\ Length(self) = 3
    /\ DataOf(self) = <<13, 11, 12>>
    /\ self.targets2 = <<0, 1, 2>>
    /\ GetItem(self, 2)[3] = 2

\* C3: the subset owns copies of its arrays, whatever the configuration: a
\* write to the base dataset's tensors leaves every item of the subset as it
\* was at construction, and a write to the subset's tensors leaves the base
\* dataset as it was.
C3_OwnsCopies ==
    self.state = "built" =>
        /\ writes.subset = 0 => Items(self) = trace.self.items
        /\ writes.base = 0 => dataset = trace.self.base

-----------------------------------------------------------------------------
(* The loss functions' operations and specification.                       *)

MaxEntries == 10

\* the entries of the activations and the values of eps
Vals == {Num(0), Num(1)}
EpsVals == {Num(0), Num(1), <<1, 2>>}

\* the activations: every tensor of one or two axes with at most MaxEntries
\* entries
Vectors ==
    UNION {{[shape |-> <<n>>, v |-> <<v>>] : v \in [1 .. n -> Vals]} : n \in 0 .. MaxEntries}
Shapes == {sh \in (1 .. MaxEntries) \X (0 .. MaxEntries) : sh[1] * sh[2] <= MaxEntries}
Matrices ==
    UNION {{Matrix(sh[1], sh[2], v) : v \in [1 .. sh[1] -> [1 .. sh[2] -> Vals]]} :
              sh \in Shapes}

CallCov ==
    /\ out' = [fn |-> "cov_matrix", res |-> cov_matrix(X)]
    /\ UNCHANGED <<X, eps, dataset, rng, seeded, self, other, raised, trace, ret, writes>>

CallCorrSq ==
    /\ out' = [fn |-> "corr_matrix_sq", res |-> corr_matrix_sq(X, eps)]
    /\ UNCHANGED <<X, eps, dataset, rng, seeded, self, other, raised, trace, ret, writes>>

CallDecov ==
    /\ out' = [fn |-> "decov_criterion", res |-> decov_criterion(X)]
    /\ UNCHANGED <<X, eps, dataset, rng, seeded, self, other, raised, trace, ret, writes>>

CallDecorr ==
    /\ out' = [fn |-> "decorr_criterion", res |-> decorr_criterion(X, eps)]
    /\ UNCHANGED <<X, eps, dataset, rng, seeded, self, other, raised, trace, ret, writes>>

CallHalfcorr ==
    /\ out' = [fn |-> "halfcorr_criterion", res |-> halfcorr_criterion(X, eps)]
    /\ UNCHANGED <<X, eps, dataset, rng, seeded, self, other, raised, trace, ret, writes>>

InitLoss ==
    /\ X \in Vectors \cup Matrices
    /\ eps \in EpsVals
    /\ out = [fn |-> "none", res |-> Return(<<>>)]
    /\ dataset = [data |-> <<>>, targets |-> <<>>]
    /\ rng = 0
    /\ seeded = 0
    /\ self = NoObject
    /\ other = NoObject
    /\ raised = "none"
    /\ trace = [self |-> NoTrace, other |-> NoTrace]
    /\ ret = <<>>
    /\ writes = [base |-> 0, subset |-> 0]

\* one call of one of the functions on the activations
NextLoss ==
    \/ out.fn = "none" /\ CallCov
    \/ out.fn = "none" /\ CallCorrSq
    \/ out.fn = "none" /\ CallDecov
    \/ out.fn = "none" /\ CallDecorr
    \/ out.fn = "none" /\ CallHalfcorr

SpecLoss == InitLoss /\ [][NextLoss]_vars

-----------------------------------------------------------------------------
(* Claims about the kernel and the criteria.                               *)

\* C4: cov_matrix and corr_matrix_sq raise the shape error exactly when the
\* input has fewer than 2 axes or its last axis is shorter than 2, and return
\* a matrix otherwise.
C4_ShapeErrorIffDegenerate ==
    out.fn \in {"cov_matrix", "corr_matrix_sq"} =>
        IF Ndim(X) < 2 \/ LastAxis(X) < 2
        THEN out.res = Raise(ShapeError)
        ELSE out.res.kind = "return"

\* C5 as stated: halfcorr_criterion(X, eps) is decorr_criterion on the rows
\* round(F/2) .. F-1 of X, F the number of rows, all columns kept.
C5_HalfcorrRestrictsRows ==
    (out.fn = "halfcorr_criterion" /\ Ndim(X) = 2) =>
        out.res = decorr_criterion(RowsFrom(X, RoundHalf(X.shape[1])), eps)

\* C5 amended: halfcorr_criterion(X, eps) is decorr_criterion on the columns
\* round(C/2) .. C-1 of X, C the length of the last axis, all rows kept.
C5_HalfcorrRestrictsLastAxis ==
    (out.fn = "halfcorr_criterion" /\ Ndim(X) = 2) =>
        out.res = decorr_criterion(ColsFrom(X, RoundHalf(LastAxis(X))), eps)

\* halfcorr_criterion returned a positive loss for a batch of two rows
C5_Witness ==
    /\ out.fn = "halfcorr_criterion"
    /\ X.shape = <<2, 4>>
    /\ out.res.kind = "return"
    /\ out.res.val[2] # 0
    /\ out.res.val[1] > 0
    /\ out.res # decorr_criterion(X, eps)

====
